---- MODULE Spec2Model ----
(***************************************************************************)
(* ALSHubService (src/alshub/service.py): one lookup call, get_user or     *)
(* v2_get_user_groupdetails, as a state machine.  A call runs from one     *)
(* await to the next; every action below is the code between two awaits:   *)
(* the reply of the awaited request arrives, the code runs on to the next  *)
(* request it issues, or to its return or raise.                           *)
(*                                                                         *)
(* Python values.  A JSON object (dict) is a function whose DOMAIN is its  *)
(* set of keys; a JSON string is a string; Python's None is None.  The     *)
(* texts of the ESAF dates are sequences of one-character strings, so that *)
(* strptime is computed on them.  A pydantic field left at its default     *)
(* None is None for the str fields and a missing key for the list fields.  *)
(***************************************************************************)
EXTENDS Integers, Sequences, FiniteSets, TLC

VARIABLES
    pc,               \* where the call is: idle, the awaited endpoint, done
    call,             \* the operation called and its arguments
    is_orcid_sandbox, \* ALSHubService.is_orcid_sandbox
    debug_enabled,    \* logger.isEnabledFor(logging.DEBUG)
    requests,         \* the requests issued so far, in order (endpoint names)
    replies,          \* the reply received from each endpoint so far
    returned,         \* the helper functions that have returned normally
    user_response_obj,
    orcid,
    beamlines,
    proposals,
    groups,
    outcome,          \* pending, returned, or the kind of the exception raised
    result            \* the record returned

vars == <<pc, call, is_orcid_sandbox, debug_enabled, requests, replies, returned,
          user_response_obj, orcid, beamlines, proposals, groups, outcome, result>>

----------------------------------------------------------------------------
(* Python values *)

None == "<None>"

Has(obj, key) == key \in DOMAIN obj

Get(obj, key) == IF Has(obj, key) THEN obj[key] ELSE None

Truthy(v) == v # None /\ v # ""

EmptyObj == [k \in {} |-> None]

Range(s) == {s[i] : i \in 1..Len(s)}

NoDuplicates(s) == \A i, j \in 1..Len(s) : s[i] = s[j] => i = j

\* list(a set): the elements, each once, in an order the caller cannot rely on
RECURSIVE list(_)
list(S) ==
    IF S = {} THEN <<>>
    ELSE LET x == CHOOSE y \in S : TRUE IN <<x>> \o list(S \ {x})

----------------------------------------------------------------------------
(* HTTP replies.  A request ends in a transport failure (httpx raises) or  *)
(* in a response with a status code and a body: empty, text that is not    *)
(* JSON, or JSON.                                                          *)

TransportFailure == [failed |-> TRUE]

Response(status, body) == [failed |-> FALSE, status_code |-> status, content |-> body]

EmptyBody == [kind |-> "empty"]
TextBody == [kind |-> "text"]
JsonBody(v) == [kind |-> "json", value |-> v]

\* httpx Response.is_error: a 4xx or 5xx status
is_error(response) == response.status_code >= 400 /\ response.status_code <= 599

\* bool(response.content)
HasContent(response) == response.content.kind # "empty"

\* response.json() raises json.JSONDecodeError unless the body is JSON
JsonRaises(response) == response.content.kind # "json"

json(response) == response.content.value

----------------------------------------------------------------------------
(* What a helper coroutine does with the reply it awaited: it returns a    *)
(* value or an exception leaves it.                                        *)

Ok(v) == [raised |-> "", value |-> v]

Raise(kind) == [raised |-> kind, value |-> {}]

----------------------------------------------------------------------------
(* The admin override table, alshub/config/beamline_admins.py *)

ADMINS == [email \in {"x@lbl.gov"} |-> <<"1.1.1">>]

ALSHUB_APPROVAL_ROLES == <<"Scientist">>

\* the mutant: a beamline counts whatever the roles held on it
approved_any_role(beamline_id, roles, approval_roles) ==
    <<beamline_id>>

\* for approval_role in approval_roles: if approval_role in roles: append(beamline_id)
RECURSIVE approved(_, _, _)
approved(beamline_id, roles, approval_roles) ==
    IF approval_roles = <<>> THEN <<>>
    ELSE (IF Head(approval_roles) \in Range(roles) THEN <<beamline_id>> ELSE <<>>)
         \o approved(beamline_id, roles, Tail(approval_roles))

RECURSIVE alshub_roles_to_beamline_groups(_, _)
alshub_roles_to_beamline_groups(beamline_roles, approval_roles) ==
    IF beamline_roles = <<>> THEN <<>>
    ELSE LET beamline_role == Head(beamline_roles)
             beamline_id == CHOOSE k \in DOMAIN beamline_role : TRUE
         IN approved(beamline_id, beamline_role[beamline_id], approval_roles)
            \o alshub_roles_to_beamline_groups(Tail(beamline_roles), approval_roles)

admin_beamlines(email) ==
    IF Truthy(email) /\ DOMAIN ADMINS # {} /\ Has(ADMINS, email)
    THEN Range(ADMINS[email]) ELSE {}

get_staff_beamlines(response, email) ==
    IF response.failed THEN Raise("TransportError")
    ELSE IF is_error(response) THEN Ok(admin_beamlines(email))
    ELSE IF HasContent(response) THEN
        IF JsonRaises(response) THEN Raise("JSONDecodeError")
        ELSE LET response_data == json(response)
             IN IF Has(response_data, "Beamline Roles")
                   /\ response_data["Beamline Roles"] # <<>>
                THEN Ok(admin_beamlines(email)
                        \cup Range(alshub_roles_to_beamline_groups(
                                     response_data["Beamline Roles"],
                                     ALSHUB_APPROVAL_ROLES)))
                ELSE Ok(admin_beamlines(email))
    ELSE Ok(admin_beamlines(email))

\* the arguments of info(...) are evaluated before the call: response.json()
\* runs on an error reply whatever the log level
get_user_proposals(response) ==
    IF response.failed THEN Raise("TransportError")
    ELSE IF is_error(response) THEN
        IF JsonRaises(response) THEN Raise("JSONDecodeError") ELSE Ok({})
    ELSE IF JsonRaises(response) THEN Raise("JSONDecodeError")
    ELSE LET proposal_response_obj == json(response)
         IN IF Has(proposal_response_obj, "Proposals")
               /\ proposal_response_obj["Proposals"] # <<>>
            THEN Ok(Range(proposal_response_obj["Proposals"]))
            ELSE Ok({})

get_user_esafs(response) ==
    IF response.failed THEN Raise("TransportError")
    ELSE IF is_error(response) THEN
        IF JsonRaises(response) THEN Raise("JSONDecodeError") ELSE Ok(<<>>)
    ELSE IF JsonRaises(response) THEN Raise("JSONDecodeError")
    ELSE LET esafs == json(response)
         IN IF esafs = <<>> THEN Ok(<<>>) ELSE Ok(esafs)

----------------------------------------------------------------------------
(* parse_esaf_date: datetime.strptime(date_str, "%m/%d/%Y") on the text,   *)
(* a sequence of characters.  A datetime is <<year, month, day>> (midnight, *)
(* America/Los_Angeles); NoDate is the None the function returns.          *)

NoDate == <<>>

\* a JSON null in a date field
NullText == <<None>>

DigitValue ==
    [c \in {"0", "1", "2", "3", "4", "5", "6", "7", "8", "9"} |->
        CASE c = "0" -> 0 [] c = "1" -> 1 [] c = "2" -> 2 [] c = "3" -> 3
          [] c = "4" -> 4 [] c = "5" -> 5 [] c = "6" -> 6 [] c = "7" -> 7
          [] c = "8" -> 8 [] c = "9" -> 9]

AllDigits(field) == \A i \in 1..Len(field) : field[i] \in DOMAIN DigitValue

RECURSIVE Number(_)
Number(field) ==
    IF field = <<>> THEN 0
    ELSE 10 * Number(SubSeq(field, 1, Len(field) - 1)) + DigitValue[field[Len(field)]]

IsLeap(year) == year % 4 = 0 /\ (year % 100 # 0 \/ year % 400 = 0)

DaysInMonth(year, month) ==
    IF month = 2 THEN (IF IsLeap(year) THEN 29 ELSE 28)
    ELSE IF month \in {4, 6, 9, 11} THEN 30 ELSE 31

parse_esaf_date(date_str) ==
    LET slashes == {i \in 1..Len(date_str) : date_str[i] = "/"}
    IN IF Cardinality(slashes) # 2 THEN NoDate
       ELSE LET s1 == CHOOSE i \in slashes : \A j \in slashes : i <= j
                s2 == CHOOSE i \in slashes : \A j \in slashes : j <= i
                m == SubSeq(date_str, 1, s1 - 1)
                d == SubSeq(date_str, s1 + 1, s2 - 1)
                Y == SubSeq(date_str, s2 + 1, Len(date_str))
            IN IF /\ Len(m) \in {1, 2} /\ AllDigits(m) /\ Number(m) \in 1..12
                  /\ Len(d) \in {1, 2} /\ AllDigits(d) /\ Number(d) \in 1..31
                  /\ Len(Y) = 4 /\ AllDigits(Y) /\ Number(Y) >= 1
                  /\ Number(d) <= DaysInMonth(Number(Y), Number(m))
               THEN <<Number(Y), Number(m), Number(d)>>
               ELSE NoDate

\* a < b on two datetimes of the same zone
Before(a, b) ==
    \/ a[1] < b[1]
    \/ a[1] = b[1] /\ a[2] < b[2]
    \/ a[1] = b[1] /\ a[2] = b[2] /\ a[3] < b[3]

\* datetime.isoformat(): year, month, day order, midnight
isoformat(d) == [year |-> d[1], month |-> d[2], day |-> d[3], time |-> "00:00:00"]

\* event["StartDate"] or ""
OrEmpty(text) == IF text = NullText THEN <<>> ELSE text

----------------------------------------------------------------------------
(* v2_get_user_groupdetails, the loop body over the ESAFs *)

\* the mutant: the scan goes on after a match
RECURSIVE participant_role_no_break(_, _)
participant_role_no_break(participants, the_orcid) ==
    IF participants = <<>> THEN <<>>
    ELSE (IF Has(Head(participants), "Orcid") /\ Head(participants)["Orcid"] = the_orcid
          THEN <<"participant">> ELSE <<>>)
         \o participant_role_no_break(Tail(participants), the_orcid)

\* for participant in esaf["Participants"]: ... append("participant"); break
RECURSIVE participant_role(_, _)
participant_role(participants, the_orcid) ==
    IF participants = <<>> THEN <<>>
    ELSE IF Has(Head(participants), "Orcid") /\ Head(participants)["Orcid"] = the_orcid
    THEN <<"participant">>
    ELSE participant_role(Tail(participants), the_orcid)

esaf_roles(esaf, the_orcid) ==
    (IF Has(esaf, "PI") /\ Has(esaf["PI"], "Orcid") /\ esaf["PI"]["Orcid"] = the_orcid
     THEN <<"pi">> ELSE <<>>)
    \o (IF Has(esaf, "ExpLead") /\ Has(esaf["ExpLead"], "Orcid")
           /\ esaf["ExpLead"]["Orcid"] = the_orcid
        THEN <<"explead">> ELSE <<>>)
    \o (IF Has(esaf, "Participants")
        THEN participant_role(esaf["Participants"], the_orcid) ELSE <<>>)

\* the mutant: the first parseable start stays
keep_first_start(earliest_start, event) ==
    IF Has(event, "StartDate")
    THEN LET start == parse_esaf_date(OrEmpty(event["StartDate"]))
         IN IF start # NoDate /\ earliest_start = NoDate THEN start ELSE earliest_start
    ELSE earliest_start

\* one event's step on earliest_start
step_start(earliest_start, event) ==
    IF Has(event, "StartDate")
    THEN LET start == parse_esaf_date(OrEmpty(event["StartDate"]))
         IN IF start # NoDate /\ (earliest_start = NoDate \/ Before(start, earliest_start))
            THEN start ELSE earliest_start
    ELSE earliest_start

\* one event's step on latest_end
step_end(latest_end, event) ==
    IF Has(event, "EndDate")
    THEN LET end == parse_esaf_date(OrEmpty(event["EndDate"]))
         IN IF end # NoDate /\ (latest_end = NoDate \/ Before(latest_end, end))
            THEN end ELSE latest_end
    ELSE latest_end

RECURSIVE scan_starts(_, _)
scan_starts(events, earliest_start) ==
    IF events = <<>> THEN earliest_start
    ELSE scan_starts(Tail(events), step_start(earliest_start, Head(events)))

RECURSIVE scan_ends(_, _)
scan_ends(events, latest_end) ==
    IF events = <<>> THEN latest_end
    ELSE scan_ends(Tail(events), step_end(latest_end, Head(events)))

esaf_earliest_start(esaf) ==
    IF Has(esaf, "ScheduledEvents") THEN scan_starts(esaf["ScheduledEvents"], NoDate)
    ELSE NoDate

esaf_latest_end(esaf) ==
    IF Has(esaf, "ScheduledEvents") THEN scan_ends(esaf["ScheduledEvents"], NoDate)
    ELSE NoDate

\* V2UserEsaf(...): earliest_start and latest_end are keys only when not None
V2UserEsaf(esaf, the_orcid) ==
    [roles |-> esaf_roles(esaf, the_orcid),
     id |-> Get(esaf, "EsafFriendlyId"),
     title |-> Get(esaf, "Title"),
     proposal_id |-> Get(esaf, "ProposalFriendlyId"),
     beamline_id |-> Get(esaf, "Beamline")]
    @@ (IF esaf_earliest_start(esaf) # NoDate
        THEN [k \in {"earliest_start"} |-> isoformat(esaf_earliest_start(esaf))]
        ELSE EmptyObj)
    @@ (IF esaf_latest_end(esaf) # NoDate
        THEN [k \in {"latest_end"} |-> isoformat(esaf_latest_end(esaf))]
        ELSE EmptyObj)

\* pydantic: V2UserEsaf.id is a required str
ValidV2UserEsaf(entry) == entry.id # None

\* the mutant: the ESAF's own identifier instead of its proposal's
esaf_friendly_ids(esafs) == {esafs[i]["EsafFriendlyId"] : i \in 1..Len(esafs)}

\* {esaf["ProposalFriendlyId"] for esaf in esafs}
esaf_ids(esafs) == {esafs[i]["ProposalFriendlyId"] : i \in 1..Len(esafs)}

\* esaf["ProposalFriendlyId"] raises KeyError
esaf_ids_raises(esafs) == \E i \in 1..Len(esafs) : ~Has(esafs[i], "ProposalFriendlyId")

----------------------------------------------------------------------------
(* The records returned (src/splash_userservice/models.py) *)

\* x or None
OrNone(v) == IF Truthy(v) THEN v ELSE None

\* the fields both User(...) calls of get_user pass
User(obj) ==
    [uid |-> Get(obj, "LBNLID"),
     given_name |-> Get(obj, "FirstName"),
     family_name |-> Get(obj, "LastName"),
     current_institution |-> Get(obj, "Institution"),
     current_email |-> Get(obj, "OrgEmail"),
     orcid |-> Get(obj, "orcid")]

WithGroups(user, group_list) == user @@ [k \in {"groups"} |-> group_list]

\* pydantic: uid and orcid are required str, groups an optional list of str
ValidUser(user) ==
    /\ user.uid # None
    /\ user.orcid # None
    /\ Has(user, "groups") => None \notin Range(user.groups)

V2UserGroupDetails(obj, the_orcid, the_groups, the_beamlines, the_proposals, the_esafs) ==
    [uid |-> OrNone(Get(obj, "LBNLID")),
     given_name |-> OrNone(Get(obj, "FirstName")),
     family_name |-> OrNone(Get(obj, "LastName")),
     current_institution |-> OrNone(Get(obj, "Institution")),
     current_email |-> OrNone(Get(obj, "OrgEmail")),
     orcid |-> the_orcid,
     groups |-> list(the_groups),
     beamlines |-> list(the_beamlines),
     proposals |-> IF the_proposals # {} THEN list(the_proposals) ELSE <<>>,
     esafs |-> the_esafs]

\* pydantic: orcid is a required str; groups, beamlines and proposals lists of str
ValidV2UserGroupDetails(details) ==
    /\ details.orcid # None
    /\ None \notin Range(details.groups)
    /\ None \notin Range(details.beamlines)
    /\ None \notin Range(details.proposals)

----------------------------------------------------------------------------
(* The state machine *)

NoReply == [pending |-> TRUE]

NoResult == EmptyObj

NoCall == [op |-> "none"]

InitOver(sandbox_modes, debug_modes) ==
    /\ pc = "idle"
    /\ call = NoCall
    /\ is_orcid_sandbox \in sandbox_modes
    /\ debug_enabled \in debug_modes
    /\ requests = <<>>
    /\ replies = [person |-> NoReply, roles |-> NoReply,
                  proposals |-> NoReply, esafs |-> NoReply]
    /\ returned = {}
    /\ user_response_obj = EmptyObj
    /\ orcid = None
    /\ beamlines = {}
    /\ proposals = {}
    /\ groups = {}
    /\ outcome = "pending"
    /\ result = NoResult

config == <<is_orcid_sandbox, debug_enabled>>

locals == <<user_response_obj, orcid, beamlines, proposals, groups>>

Finish(kind, value) == pc' = "done" /\ outcome' = kind /\ result' = value

Raises(kind) == Finish(kind, NoResult)

Returns(value, valid) ==
    IF valid THEN Finish("returned", value) ELSE Raises("ValidationError")

\* the mutant: a client that sends the request a second time (a retry)
Issue_with_retry(endpoint) ==
    /\ requests' = requests \o <<endpoint, endpoint>>
    /\ pc' = endpoint
    /\ UNCHANGED <<outcome, result>>

\* the request goes out and the call awaits its reply
Issue(endpoint) ==
    /\ requests' = Append(requests, endpoint)
    /\ pc' = endpoint
    /\ UNCHANGED <<outcome, result>>

Received(endpoint, response) == replies' = [replies EXCEPT ![endpoint] = response]

\* get_user up to its first await: the person-lookup request
get_user(id, id_type, fetch_groups) ==
    /\ pc = "idle"
    /\ call' = [op |-> "get_user", id |-> id, id_type |-> id_type,
                fetch_groups |-> fetch_groups]
    /\ groups' = {}
    /\ Issue("person")
    /\ UNCHANGED <<config, replies, returned, user_response_obj, orcid,
                   beamlines, proposals>>

\* v2_get_user_groupdetails up to its first await: the person-lookup request
v2_get_user_groupdetails(the_orcid) ==
    /\ pc = "idle"
    /\ call' = [op |-> "v2", orcid |-> the_orcid]
    /\ orcid' = the_orcid
    /\ Issue("person")
    /\ UNCHANGED <<config, replies, returned, user_response_obj,
                   beamlines, proposals, groups>>

\* what the person-lookup reply raises before user_response_obj is read
person_lookup_raises(response) ==
    IF response.failed THEN "CommunicationError"
    ELSE IF debug_enabled /\ HasContent(response) /\ JsonRaises(response)
    THEN "CommunicationError"
    ELSE IF response.status_code = 404 THEN "UserNotFound"
    ELSE IF is_error(response) THEN
        IF JsonRaises(response) THEN "JSONDecodeError" ELSE "CommunicationError"
    ELSE IF JsonRaises(response) THEN "JSONDecodeError"
    ELSE ""

\* get_user from the person-lookup reply to the next await or the end
get_user_person_reply(response) ==
    /\ pc = "person" /\ call.op = "get_user"
    /\ Received("person", response)
    /\ UNCHANGED <<call, config, returned, beamlines, proposals, groups>>
    /\ IF person_lookup_raises(response) # ""
       THEN Raises(person_lookup_raises(response))
            /\ UNCHANGED <<requests, user_response_obj, orcid>>
       ELSE LET obj == json(response)
                the_orcid == IF call.id_type = "orcid" THEN call.id ELSE Get(obj, "orcid")
            IN /\ user_response_obj' = obj
               /\ orcid' = the_orcid
               /\ IF Truthy(the_orcid)
                  THEN IF Has(obj, "OrgEmail")
                       THEN Issue("roles")
                       ELSE Raises("KeyError") /\ UNCHANGED requests
                  ELSE /\ UNCHANGED requests
                       /\ IF ~call.fetch_groups
                          THEN Returns(User(obj), ValidUser(User(obj)))
                          ELSE Returns(WithGroups(User(obj), list(groups)),
                                       ValidUser(WithGroups(User(obj), list(groups))))

\* v2_get_user_groupdetails from the person-lookup reply to the next await or the end
v2_person_reply(response) ==
    /\ pc = "person" /\ call.op = "v2"
    /\ Received("person", response)
    /\ UNCHANGED <<call, config, returned, orcid, beamlines, proposals, groups>>
    /\ IF person_lookup_raises(response) # ""
       THEN Raises(person_lookup_raises(response))
            /\ UNCHANGED <<requests, user_response_obj>>
       ELSE /\ user_response_obj' = json(response)
            /\ IF Has(json(response), "OrgEmail")
               THEN Issue("roles")
               ELSE Raises("KeyError") /\ UNCHANGED requests

\* from the person-roles reply (get_staff_beamlines) to the next await or the end
roles_reply(response) ==
    /\ pc = "roles"
    /\ Received("roles", response)
    /\ UNCHANGED <<call, config, user_response_obj, orcid, proposals>>
    /\ LET staff == get_staff_beamlines(response, user_response_obj["OrgEmail"])
       IN IF staff.raised # ""
          THEN Raises(staff.raised) /\ UNCHANGED <<requests, returned, beamlines, groups>>
          ELSE /\ returned' = returned \cup {"get_staff_beamlines"}
               /\ beamlines' = staff.value
               /\ IF call.op = "get_user"
                  THEN /\ groups' = groups \cup staff.value
                       /\ IF ~call.fetch_groups
                          THEN Returns(User(user_response_obj),
                                       ValidUser(User(user_response_obj)))
                               /\ UNCHANGED requests
                          ELSE Issue("proposals")
                  ELSE /\ groups' = staff.value
                       /\ Issue("proposals")

\* from the proposals reply (get_user_proposals) to the ESAF request
proposals_reply(response) ==
    /\ pc = "proposals"
    /\ Received("proposals", response)
    /\ UNCHANGED <<call, config, user_response_obj, orcid, beamlines>>
    /\ LET found == get_user_proposals(response)
       IN IF found.raised # ""
          THEN Raises(found.raised) /\ UNCHANGED <<requests, returned, proposals, groups>>
          ELSE /\ returned' = returned \cup {"get_user_proposals"}
               /\ proposals' = found.value
               /\ groups' = groups \cup found.value
               /\ Issue("esafs")

\* from the ESAF reply (get_user_esafs) to the end of the call
esafs_reply(response) ==
    /\ pc = "esafs"
    /\ Received("esafs", response)
    /\ UNCHANGED <<call, config, requests, user_response_obj, orcid, beamlines, proposals>>
    /\ LET got == get_user_esafs(response)
           esafs == got.value
           all_groups == groups \cup esaf_ids(esafs)
           entries == [i \in 1..Len(esafs) |-> V2UserEsaf(esafs[i], orcid)]
           user == WithGroups(User(user_response_obj), list(all_groups))
           details == V2UserGroupDetails(user_response_obj, orcid, all_groups,
                                         beamlines, proposals, entries)
       IN IF got.raised # ""
          THEN Raises(got.raised) /\ UNCHANGED <<returned, groups>>
          ELSE /\ returned' = returned \cup {"get_user_esafs"}
               /\ IF esaf_ids_raises(esafs)
                  THEN Raises("KeyError") /\ UNCHANGED groups
                  ELSE /\ groups' = all_groups
                       /\ IF call.op = "get_user"
                          THEN Returns(user, ValidUser(user))
                          ELSE IF \E i \in 1..Len(esafs) : ~ValidV2UserEsaf(entries[i])
                          THEN Raises("ValidationError")
                          ELSE Returns(details, ValidV2UserGroupDetails(details))

\* the awaited reply is one of the replies the endpoint can give
NextOver(calls, person_replies, roles_replies, proposals_replies, esafs_replies) ==
    \/ pc = "idle" /\ \E c \in calls :
          c.op = "get_user" /\ get_user(c.id, c.id_type, c.fetch_groups)
    \/ pc = "idle" /\ \E c \in calls :
          c.op = "v2" /\ v2_get_user_groupdetails(c.orcid)
    \/ pc = "person" /\ \E response \in person_replies : get_user_person_reply(response)
    \/ pc = "person" /\ \E response \in person_replies : v2_person_reply(response)
    \/ pc = "roles" /\ \E response \in roles_replies : roles_reply(response)
    \/ pc = "proposals" /\ \E response \in proposals_replies : proposals_reply(response)
    \/ pc = "esafs" /\ \E response \in esafs_replies : esafs_reply(response)

----------------------------------------------------------------------------
(* The inputs: the calls made and the replies of the four endpoints *)

Seqs(S, n) == UNION {[1..k -> S] : k \in 0..n}

GetUserCall(id, id_type, fetch_groups) ==
    [op |-> "get_user", id |-> id, id_type |-> id_type, fetch_groups |-> fetch_groups]

V2Call(the_orcid) == [op |-> "v2", orcid |-> the_orcid]

ErrorObject == [message |-> "error"]

\* an error status with an empty body, a body that is not JSON, a JSON body
ErrorReplies(statuses) ==
    {Response(s, b) : s \in statuses, b \in {EmptyBody, TextBody, JsonBody(ErrorObject)}}

OkReplies(values) ==
    {Response(200, b) : b \in {EmptyBody, TextBody} \cup {JsonBody(v) : v \in values}}

Replies(statuses, values) ==
    {TransportFailure} \cup ErrorReplies(statuses) \cup OkReplies(values)

PersonSample ==
    [LBNLID |-> "100", FirstName |-> "Ada", LastName |-> "Lovelace",
     Institution |-> "LBNL", OrgEmail |-> "x@lbl.gov", orcid |-> "0000-0001"]

PersonFields == DOMAIN PersonSample

\* the person-lookup objects with the keys of one of key_sets
PersonObjects(key_sets, emails, orcids) ==
    UNION {{[k \in K |-> CASE k = "OrgEmail" -> e
                           [] k = "orcid" -> o
                           [] OTHER -> PersonSample[k]] : e \in emails, o \in orcids}
           : K \in key_sets}

BeamlineRole(beamline_id, roles) == [b \in {beamline_id} |-> roles]

\* the person-roles objects: without "Beamline Roles", or with one of the lists
RolesObjects(beamline_role_lists) ==
    {[ORCID |-> "0000-0001"]}
    \cup {[k \in {"Beamline Roles"} |-> l] : l \in beamline_role_lists}

ProposalsObjects(proposal_lists) ==
    {[ORCID |-> "0000-0001"]} \cup {[Proposals |-> l] : l \in proposal_lists}

EsafSample ==
    [EsafFriendlyId |-> "ESAF-1", ProposalFriendlyId |-> "ALS-00123",
     Title |-> "title", Beamline |-> "7.3.3"]

\* an ESAF object: the sample with some keys dropped, others set
EsafObject(dropped, set) ==
    [k \in (DOMAIN EsafSample \ dropped) \cup DOMAIN set |->
        IF k \in DOMAIN set THEN set[k] ELSE EsafSample[k]]

----------------------------------------------------------------------------
(* Spec: every kind of reply at every endpoint, short lists *)

Calls ==
    {GetUserCall(id, "orcid", f) : id \in {"0000-0001", "0000-0002"}, f \in BOOLEAN}
    \cup {GetUserCall("x@lbl.gov", "email", f) : f \in BOOLEAN}
    \cup {V2Call("0000-0001")}

PersonReplies ==
    Replies({404, 500},
            PersonObjects({K \in SUBSET PersonFields :
                             {"FirstName", "LastName", "Institution"} \subseteq K},
                          {"x@lbl.gov", "y@lbl.gov"}, {"0000-0001", "0000-0002"}))

RolesReplies ==
    Replies({500},
            RolesObjects({<<BeamlineRole("7.3.3", <<"Scientist", "Beamline Staff">>),
                            BeamlineRole("5.0.2", <<"Beamline Staff">>)>>}))

ProposalsReplies ==
    Replies({500}, ProposalsObjects({<<>>, <<"ALS-00123">>}))

EsafsReplies ==
    Replies({500},
            Seqs({EsafObject(d, [ProposalFriendlyId |-> p]) :
                    d \in {{}, {"EsafFriendlyId"}}, p \in {None, "ALS-00123", "ALS-00456"}}
                 \cup {EsafObject({"ProposalFriendlyId"}, EmptyObj)}, 1))

Init == InitOver(BOOLEAN, BOOLEAN)

Next == NextOver(Calls, PersonReplies, RolesReplies, ProposalsReplies, EsafsReplies)

Spec == Init /\ [][Next]_vars

----------------------------------------------------------------------------
(* What the replies say, read off the replies themselves *)

Endpoints == {"person", "roles", "proposals", "esafs"}

Enrichment == {"roles", "proposals", "esafs"}

IsResponse(reply) == reply # NoReply /\ ~reply.failed

IsErrorStatus(reply) == IsResponse(reply) /\ is_error(reply)

IsJsonSuccess(reply) == IsResponse(reply) /\ ~is_error(reply) /\ reply.content.kind = "json"

\* the override beamlines of the admin table for an email
OverrideBeamlines(email) == IF email \in DOMAIN ADMINS THEN Range(ADMINS[email]) ELSE {}

\* the beamlines of the "Beamline Roles" list whose role list contains "Scientist"
ScientistBeamlines(reply) ==
    IF IsJsonSuccess(reply) /\ Has(json(reply), "Beamline Roles")
    THEN LET l == json(reply)["Beamline Roles"]
         IN {b \in UNION {DOMAIN l[i] : i \in 1..Len(l)} :
               \E i \in 1..Len(l) : b \in DOMAIN l[i] /\ "Scientist" \in Range(l[i][b])}
    ELSE {}

ExpectedStaff ==
    OverrideBeamlines(Get(user_response_obj, "OrgEmail")) \cup ScientistBeamlines(replies.roles)

ReportedProposals(reply) ==
    IF IsJsonSuccess(reply) /\ Has(json(reply), "Proposals")
    THEN Range(json(reply)["Proposals"]) ELSE {}

ReportedEsafs(reply) == IF IsJsonSuccess(reply) THEN json(reply) ELSE <<>>

ReportedEsafProposals(reply) ==
    {Get(ReportedEsafs(reply)[i], "ProposalFriendlyId") : i \in 1..Len(ReportedEsafs(reply))}

\* a success reply the code has nothing to object to
WellFormed(endpoint, reply) ==
    /\ IsResponse(reply) /\ ~is_error(reply)
    /\ \/ reply.content.kind = "json"
       \/ endpoint = "roles" /\ reply.content.kind = "empty"
    /\ endpoint = "esafs" =>
          \A i \in 1..Len(json(reply)) :
             /\ Get(json(reply)[i], "EsafFriendlyId") # None
             /\ Get(json(reply)[i], "ProposalFriendlyId") # None

\* the person lookup succeeded and its object carries every field of keys
PersonFound(keys) ==
    /\ IsJsonSuccess(replies.person)
    /\ keys \subseteq DOMAIN json(replies.person)

IdentityFieldsKept ==
    /\ result.given_name = Get(user_response_obj, "FirstName")
    /\ result.family_name = Get(user_response_obj, "LastName")
    /\ result.current_institution = Get(user_response_obj, "Institution")
    /\ result.current_email = Get(user_response_obj, "OrgEmail")

WithAllGroups == call.op = "v2" \/ (call.op = "get_user" /\ call.fetch_groups)

----------------------------------------------------------------------------
(* C1: in get_user and v2_get_user_groupdetails a person-lookup response   *)
(* with status 404 raises UserNotFound, one with any other error-range     *)
(* status raises CommunicationError, and in both cases the call ends with  *)
(* no person-roles, proposals or ESAF request issued.                      *)
C1_PersonLookupErrorKinds ==
    IsErrorStatus(replies.person) =>
        /\ pc = "done"
        /\ outcome = IF replies.person.status_code = 404
                     THEN "UserNotFound" ELSE "CommunicationError"
        /\ requests = <<"person">>

(* C2: a transport failure at any of the four endpoints, in either         *)
(* operation, reaches the caller as CommunicationError and nothing else.   *)
C2_TransportFailureIsCommunicationError ==
    \A e \in Endpoints :
        replies[e] = TransportFailure => pc = "done" /\ outcome = "CommunicationError"

(* C3: after a successful person lookup, an error-range status from the    *)
(* person-roles, proposals or ESAF endpoint never makes the call fail: it  *)
(* returns a record with the identity fields, the failing endpoint         *)
(* contributes nothing and the other endpoints' contributions are kept.    *)
(* (Stated for a complete person object and otherwise well-formed success  *)
(* replies, so that nothing but the error status is in play.)              *)
C3_EnrichmentErrorsNotFatal ==
    ( /\ pc = "done"
      /\ PersonFound(PersonFields)
      /\ \E e \in Enrichment : IsErrorStatus(replies[e])
      /\ \A e \in Enrichment :
            replies[e] # NoReply => IsErrorStatus(replies[e]) \/ WellFormed(e, replies[e]) )
    => /\ outcome = "returned"
       /\ IdentityFieldsKept
       /\ WithAllGroups =>
             Range(result.groups) = ExpectedStaff \cup ReportedProposals(replies.proposals)
                                      \cup ReportedEsafProposals(replies.esafs)

(* C4: get_user with fetch_groups = false and a successful person lookup   *)
(* issues no proposals and no ESAF request, and the groups of the User it  *)
(* returns are exactly the staff-beamline set computed for the user.       *)
C4_NoFetchGroupsKeepsStaffBeamlines ==
    (call.op = "get_user" /\ ~call.fetch_groups /\ outcome = "returned") =>
        /\ "proposals" \notin Range(requests)
        /\ "esafs" \notin Range(requests)
        /\ Has(result, "groups")
        /\ Range(result.groups) = ExpectedStaff

\* the sandbox fixture list (not in src/): one fully populated User
SandboxFixtures ==
    <<[uid |-> "sandbox-1", given_name |-> "Sandy", family_name |-> "Box",
       current_institution |-> "LBNL", current_email |-> "sandbox@lbl.gov",
       orcid |-> "0000-0001", groups |-> <<"sandbox">>]>>

FixturesFor(id) == SelectSeq(SandboxFixtures, LAMBDA u : u.orcid = id)

(* C5: in sandbox mode, get_user with identifier type orcid and an         *)
(* identifier equal to a fixture's orcid returns the first such fixture    *)
(* unchanged and issues no request; an identifier matching no fixture      *)
(* proceeds with the person-lookup request.                                *)
C5_SandboxShortCircuit ==
    (is_orcid_sandbox /\ call.op = "get_user" /\ call.id_type = "orcid") =>
        IF FixturesFor(call.id) # <<>>
        THEN /\ requests = <<>>
             /\ pc = "done" /\ outcome = "returned"
             /\ result = Head(FixturesFor(call.id))
        ELSE requests # <<>> /\ Head(requests) = "person"

(* C10: get_user by orcid with a successful person lookup returns a User   *)
(* whose orcid is the response's orcid field if present and otherwise the  *)
(* input identifier; with no orcid field in the response the call          *)
(* succeeds, for both values of fetch_groups.  (Stated for a response      *)
(* carrying LBNLID and OrgEmail and well-formed enrichment replies.)       *)
C10_OrcidFallsBackToIdentifier ==
    ( /\ pc = "done"
      /\ call.op = "get_user" /\ call.id_type = "orcid"
      /\ PersonFound({"LBNLID", "OrgEmail"})
      /\ \A e \in Enrichment : replies[e] # NoReply => WellFormed(e, replies[e]) )
    => /\ outcome = "returned"
       /\ result.orcid = IF Has(user_response_obj, "orcid")
                         THEN user_response_obj["orcid"] ELSE call.id

----------------------------------------------------------------------------
(* The specifications of the claims about one computation: the same state  *)
(* machine, with long lists at the endpoint the computation reads and one  *)
(* good reply at the others.                                               *)

MaxBeamlineRoles == 2
MaxProposals == 2
MaxEsafs == 2
MaxParticipants == 2
MaxEvents == 2

OptionalKey(key, values) == {EmptyObj} \cup {[k \in {key} |-> v] : v \in values}

GoodPerson == {Response(200, JsonBody(PersonSample))}

GoodRoles ==
    {Response(200, JsonBody([k \in {"Beamline Roles"} |->
                                <<BeamlineRole("7.3.3", <<"Scientist">>)>>]))}

GoodProposals == {Response(200, JsonBody([Proposals |-> <<"ALS-00123">>]))}

GoodEsafs == {Response(200, JsonBody(<<EsafSample>>))}

InitOne == InitOver({FALSE}, {FALSE})

\* SpecStaff: the person-roles replies, for an email in the admin table, one
\* outside it and a null one
PersonRepliesStaff ==
    OkReplies(PersonObjects({PersonFields}, {"x@lbl.gov", "y@lbl.gov", None}, {"0000-0001"}))

BeamlineRolesStaff ==
    {BeamlineRole(b, r) :
        b \in {"1.1.1", "7.3.3", "5.0.2"},
        r \in {<<>>, <<"Scientist">>, <<"Beamline Staff">>, <<"Beamline Staff", "Scientist">>}}

RolesRepliesStaff ==
    Replies({500}, RolesObjects(Seqs(BeamlineRolesStaff, MaxBeamlineRoles)))

NextStaff ==
    NextOver({GetUserCall("0000-0001", "orcid", FALSE), V2Call("0000-0001")},
             PersonRepliesStaff, RolesRepliesStaff, GoodProposals, GoodEsafs)

SpecStaff == InitOne /\ [][NextStaff]_vars

\* SpecGroups: proposals and ESAFs that share identifiers
CallsGroups ==
    {GetUserCall("0000-0001", "orcid", TRUE), GetUserCall("x@lbl.gov", "email", TRUE),
     V2Call("0000-0001")}

PersonRepliesGroups ==
    OkReplies(PersonObjects({PersonFields}, {"x@lbl.gov", "y@lbl.gov"}, {"0000-0001"}))

ProposalsRepliesGroups ==
    Replies({500}, ProposalsObjects(Seqs({"ALS-00123", "ALS-00456"}, MaxProposals)))

EsafsRepliesGroups ==
    Replies({500},
            Seqs({EsafObject({}, [ProposalFriendlyId |-> p]) :
                    p \in {None, "ALS-00123", "ALS-00789"}}, MaxEsafs))

NextGroups ==
    NextOver(CallsGroups, PersonRepliesGroups, RolesReplies,
             ProposalsRepliesGroups, EsafsRepliesGroups)

SpecGroups == InitOne /\ [][NextGroups]_vars

\* SpecEsafRoles: the PI, the experiment lead and the participants of an ESAF
CallsEsaf == {V2Call("0000-0001"), GetUserCall("0000-0001", "orcid", TRUE)}

PersonRefs == {EmptyObj} \cup {[Orcid |-> o] : o \in {"0000-0001", "0000-0002", None}}

ParticipantRefs == {EmptyObj} \cup {[Orcid |-> o] : o \in {"0000-0001", "0000-0002"}}

EsafsWithPeople ==
    {EsafSample @@ pi @@ lead @@ people :
        pi \in OptionalKey("PI", PersonRefs),
        lead \in OptionalKey("ExpLead", PersonRefs),
        people \in OptionalKey("Participants", Seqs(ParticipantRefs, MaxParticipants))}

\* each ESAF of esafs alone, and each of few before and after another one
Around(esafs, few, other) ==
    {<<e>> : e \in esafs} \cup {<<e, other>> : e \in few} \cup {<<other, e>> : e \in few}

EsafsRepliesRoles ==
    OkReplies(Around(EsafsWithPeople,
                     {EsafSample @@ pi : pi \in OptionalKey("PI", PersonRefs)},
                     EsafSample @@ [k \in {"PI"} |-> [Orcid |-> "0000-0001"]]))

NextEsafRoles ==
    NextOver(CallsEsaf, GoodPerson, GoodRoles, GoodProposals, EsafsRepliesRoles)

SpecEsafRoles == InitOne /\ [][NextEsafRoles]_vars

\* SpecEsafDates: the scheduled events of an ESAF
Text_01_15_2024 == <<"0", "1", "/", "1", "5", "/", "2", "0", "2", "4">>
Text_12_01_2023 == <<"1", "2", "/", "0", "1", "/", "2", "0", "2", "3">>
Text_3_5_2024 == <<"3", "/", "5", "/", "2", "0", "2", "4">>
Text_02_30_2024 == <<"0", "2", "/", "3", "0", "/", "2", "0", "2", "4">>
Text_not_a_date == <<"n", "o", "t", "-", "a", "-", "d", "a", "t", "e">>

StartValues == {Text_12_01_2023, Text_01_15_2024, Text_not_a_date, NullText}

EndValues == {Text_3_5_2024, Text_01_15_2024, Text_02_30_2024, NullText}

Events ==
    {start @@ end : start \in OptionalKey("StartDate", StartValues),
                    end \in OptionalKey("EndDate", EndValues)}

EsafsWithEvents ==
    {EsafSample @@ events : events \in OptionalKey("ScheduledEvents", Seqs(Events, MaxEvents))}

EsafsRepliesDates ==
    OkReplies(Around(EsafsWithEvents,
                     {EsafSample @@ events :
                        events \in OptionalKey("ScheduledEvents", Seqs(Events, 1))},
                     EsafSample @@ [k \in {"ScheduledEvents"} |->
                                      <<[StartDate |-> Text_3_5_2024]>>]))

NextEsafDates ==
    NextOver(CallsEsaf, GoodPerson, GoodRoles, GoodProposals, EsafsRepliesDates)

SpecEsafDates == InitOne /\ [][NextEsafDates]_vars

----------------------------------------------------------------------------
(* C6: for every successful get_user call with fetch_groups = true and     *)
(* every successful v2_get_user_groupdetails call, the groups list holds   *)
(* no element twice and is, as a set, the union of the staff beamlines,    *)
(* the proposal identifiers the proposals endpoint returned and the        *)
(* ProposalFriendlyId of every ESAF returned; in the v2 result every       *)
(* element of beamlines and of proposals is an element of groups.          *)
C6_GroupsAreTheUnion ==
    (outcome = "returned" /\ WithAllGroups) =>
        /\ NoDuplicates(result.groups)
        /\ Range(result.groups) = ExpectedStaff \cup ReportedProposals(replies.proposals)
                                    \cup ReportedEsafProposals(replies.esafs)
        /\ call.op = "v2" =>
              /\ Range(result.beamlines) \subseteq Range(result.groups)
              /\ Range(result.proposals) \subseteq Range(result.groups)

\* the proposals endpoint and two ESAFs report the same identifier, twice each,
\* beside a staff beamline and another proposal
C6_Witness ==
    /\ outcome = "returned" /\ WithAllGroups
    /\ IsJsonSuccess(replies.proposals)
    /\ Has(json(replies.proposals), "Proposals")
    /\ json(replies.proposals)["Proposals"] = <<"ALS-00123", "ALS-00123">>
    /\ Len(ReportedEsafs(replies.esafs)) = 2
    /\ ReportedEsafProposals(replies.esafs) = {"ALS-00123"}
    /\ ExpectedStaff = {"1.1.1", "7.3.3"}
    /\ Len(result.groups) = 3

(* C7: the staff-beamline computation returns exactly the override         *)
(* beamlines of the admin table for the user's email (if the email is a    *)
(* key of the table) united with every beamline of the "Beamline Roles"    *)
(* list whose role list contains "Scientist"; a beamline without           *)
(* "Scientist" is in only as an override beamline; on an error reply or a  *)
(* reply without content the result is exactly the override set.           *)
C7_StaffBeamlines ==
    "get_staff_beamlines" \in returned =>
        LET override == OverrideBeamlines(user_response_obj["OrgEmail"])
        IN /\ beamlines = override \cup ScientistBeamlines(replies.roles)
           /\ \A b \in beamlines \ override :
                 \E i \in 1..Len(json(replies.roles)["Beamline Roles"]) :
                    LET beamline_role == json(replies.roles)["Beamline Roles"][i]
                    IN b \in DOMAIN beamline_role /\ "Scientist" \in Range(beamline_role[b])
           /\ (is_error(replies.roles) \/ ~HasContent(replies.roles)) => beamlines = override
           /\ (outcome = "returned" /\ call.op = "v2") =>
                 Range(result.beamlines) = beamlines

\* an admin's email, a Scientist beamline and a beamline held as staff only
C7_Witness ==
    /\ "get_staff_beamlines" \in returned
    /\ user_response_obj["OrgEmail"] = "x@lbl.gov"
    /\ IsJsonSuccess(replies.roles)
    /\ Has(json(replies.roles), "Beamline Roles")
    /\ json(replies.roles)["Beamline Roles"]
         = <<BeamlineRole("7.3.3", <<"Beamline Staff", "Scientist">>),
             BeamlineRole("5.0.2", <<"Beamline Staff">>)>>
    /\ beamlines = {"1.1.1", "7.3.3"}

OrcidAt(esaf, key) ==
    IF Has(esaf, key) /\ Has(esaf[key], "Orcid") THEN esaf[key]["Orcid"] ELSE None

ParticipantOrcids(esaf) ==
    IF Has(esaf, "Participants")
    THEN {Get(esaf["Participants"][j], "Orcid") : j \in 1..Len(esaf["Participants"])}
    ELSE {}

(* C8: in v2_get_user_groupdetails, for every returned ESAF the roles of   *)
(* its V2UserEsaf contain "pi" exactly when PI.Orcid is the requested      *)
(* orcid, "explead" exactly when ExpLead.Orcid is, "participant" exactly   *)
(* when some Participants entry has it; each role appears at most once,    *)
(* and the roles are independent of each other.                            *)
C8_EsafRoles ==
    (outcome = "returned" /\ call.op = "v2") =>
        /\ Len(result.esafs) = Len(ReportedEsafs(replies.esafs))
        /\ \A i \in 1..Len(result.esafs) :
              LET esaf == ReportedEsafs(replies.esafs)[i]
                  roles == result.esafs[i].roles
              IN /\ "pi" \in Range(roles) <=> OrcidAt(esaf, "PI") = call.orcid
                 /\ "explead" \in Range(roles) <=> OrcidAt(esaf, "ExpLead") = call.orcid
                 /\ "participant" \in Range(roles) <=> call.orcid \in ParticipantOrcids(esaf)
                 /\ NoDuplicates(roles)
                 /\ Range(roles) \subseteq {"pi", "explead", "participant"}

\* the user is the PI and two of the participants, and not the experiment lead
C8_Witness ==
    /\ outcome = "returned" /\ call.op = "v2"
    /\ \E i \in 1..Len(result.esafs) :
          LET esaf == ReportedEsafs(replies.esafs)[i]
          IN /\ OrcidAt(esaf, "PI") = call.orcid
             /\ OrcidAt(esaf, "ExpLead") = "0000-0002"
             /\ Has(esaf, "Participants")
             /\ esaf["Participants"] = <<[Orcid |-> call.orcid], [Orcid |-> call.orcid]>>
             /\ result.esafs[i].roles = <<"pi", "participant">>

EventsOf(esaf) == IF Has(esaf, "ScheduledEvents") THEN esaf["ScheduledEvents"] ELSE <<>>

\* the dates that parse among the values of one key of the events
ParseableDates(esaf, key) ==
    {parse_esaf_date(OrEmpty(EventsOf(esaf)[j][key])) :
        j \in {k \in 1..Len(EventsOf(esaf)) : Has(EventsOf(esaf)[k], key)}} \ {NoDate}

Earliest(dates) == CHOOSE d \in dates : \A e \in dates : d = e \/ Before(d, e)

Latest(dates) == CHOOSE d \in dates : \A e \in dates : d = e \/ Before(e, d)

(* C9: in v2_get_user_groupdetails, for every ESAF, earliest_start is the  *)
(* minimum of the parseable StartDate values of its ScheduledEvents and    *)
(* latest_end the maximum of the parseable EndDate values; a date string   *)
(* that does not parse (a null or empty one too) never raises, never       *)
(* becomes earliest_start or latest_end and does not stop the other events *)
(* from being considered; a field is absent exactly when no event has a    *)
(* parseable date of that kind.                                            *)
C9_EsafDateRange ==
    /\ ( /\ pc = "done" /\ call.op = "v2"
         /\ "get_user_esafs" \in returned
         /\ WellFormed("esafs", replies.esafs) ) => outcome = "returned"
    /\ (outcome = "returned" /\ call.op = "v2") =>
          \A i \in 1..Len(result.esafs) :
             LET esaf == ReportedEsafs(replies.esafs)[i]
                 starts == ParseableDates(esaf, "StartDate")
                 ends == ParseableDates(esaf, "EndDate")
             IN /\ Has(result.esafs[i], "earliest_start") <=> starts # {}
                /\ Has(result.esafs[i], "latest_end") <=> ends # {}
                /\ starts # {} =>
                      result.esafs[i].earliest_start = isoformat(Earliest(starts))
                /\ ends # {} =>
                      result.esafs[i].latest_end = isoformat(Latest(ends))

\* a start that does not parse, then 01/15/2024, and ends 3/5/2024 then a null:
\* the range is 2024-01-15 to 2024-03-05
C9_Witness ==
    /\ outcome = "returned" /\ call.op = "v2"
    /\ \E i \in 1..Len(result.esafs) :
          /\ EventsOf(ReportedEsafs(replies.esafs)[i])
               = <<[StartDate |-> Text_not_a_date, EndDate |-> Text_3_5_2024],
                   [StartDate |-> Text_01_15_2024, EndDate |-> NullText]>>
          /\ result.esafs[i].earliest_start
               = [year |-> 2024, month |-> 1, day |-> 15, time |-> "00:00:00"]
          /\ result.esafs[i].latest_end
               = [year |-> 2024, month |-> 3, day |-> 5, time |-> "00:00:00"]

----------------------------------------------------------------------------
(* C11: get_user by email with fetch_groups = true and a successful        *)
(* person lookup whose response carries no orcid issues no person-roles,   *)
(* proposals or ESAF request and returns a User with the identity fields   *)
(* instead of raising.  (Stated for a response carrying LBNLID.)           *)
C11_NoOrcidContinuesWithoutEnrichment ==
    ( /\ pc = "done"
      /\ call.op = "get_user" /\ call.id_type = "email" /\ call.fetch_groups
      /\ PersonFound({"LBNLID"})
      /\ ~Has(json(replies.person), "orcid") )
    => /\ requests = <<"person">>
       /\ outcome = "returned"
       /\ result.uid = user_response_obj["LBNLID"]
       /\ IdentityFieldsKept

(* C12: v2_get_user_groupdetails succeeds for every successful person      *)
(* lookup, whichever of LBNLID, FirstName, LastName, Institution and       *)
(* OrgEmail the response omits: each omitted field is absent in the        *)
(* result, orcid equals the input, and esafs holds one entry per returned  *)
(* ESAF in the order the ESAF endpoint returned them.  (Stated for         *)
(* well-formed enrichment replies.)                                        *)
C12_V2ToleratesOmittedFields ==
    ( /\ call.op = "v2"
      /\ PersonFound({})
      /\ \A e \in Enrichment : replies[e] # NoReply => WellFormed(e, replies[e]) )
    => /\ pc = "done" => outcome = "returned"
       /\ outcome = "returned" =>
             /\ result.uid = Get(user_response_obj, "LBNLID")
             /\ IdentityFieldsKept
             /\ result.orcid = call.orcid
             /\ Len(result.esafs) = Len(ReportedEsafs(replies.esafs))
             /\ \A i \in 1..Len(result.esafs) :
                   result.esafs[i].id = ReportedEsafs(replies.esafs)[i]["EsafFriendlyId"]

\* the place of an endpoint in the order person, roles, proposals, ESAF
Rank(endpoint) ==
    CASE endpoint = "person" -> 1
      [] endpoint = "roles" -> 2
      [] endpoint = "proposals" -> 3
      [] endpoint = "esafs" -> 4

(* C13: within one call the requests go out one after another in the      *)
(* order person lookup, person roles, proposals, ESAF: none of the last    *)
(* three before the person-lookup response has been received, never two    *)
(* in flight, each endpoint at most once (no retry after a failure).       *)
C13_RequestsInSequence ==
    /\ \A i, j \in 1..Len(requests) :
          i < j => Rank(requests[i]) < Rank(requests[j])
    /\ \A i \in 1..Len(requests) :
          i < Len(requests) => replies[requests[i]] # NoReply
    /\ \A e \in Endpoints : replies[e] # NoReply => e \in Range(requests)
    /\ \A e \in Enrichment : e \in Range(requests) => IsResponse(replies.person)
    /\ pc \in Endpoints =>
          /\ requests # <<>> /\ requests[Len(requests)] = pc
          /\ replies[pc] = NoReply
    /\ \A e \in Endpoints :
          replies[e] = TransportFailure =>
             pc = "done" /\ requests[Len(requests)] = e

\* a call that went through all four endpoints, the last of them failing
C13_Witness ==
    /\ pc = "done"
    /\ requests = <<"person", "roles", "proposals", "esafs">>
    /\ replies.esafs = TransportFailure
    /\ \A e \in {"person", "roles", "proposals"} : IsResponse(replies[e])

====
